---- MODULE Spec2Model ----
(***************************************************************************)
(* Model of scan-launcher-checker.  launcher-checker.ts: the active-scan   *)
(* gate, the scan-start mutation and the polling loop                      *)
(* pollUntilScanComplete (Spec, FairSpec).  cancel-scan.ts: the in-progress *)
(* check, the prompt and the cancelScan mutation (CancelSpec).  The        *)
(* GraphQL helpers are modelled by what they compute from an HTTP response.*)
(*                                                                         *)
(* JavaScript values are modelled by strings: "undefined", "null", "true", *)
(* "false", "obj" (some object), "empty" (the empty string), scan ids, and *)
(* "TypeError"/"throw" for an exception raised while evaluating.           *)
(***************************************************************************)
EXTENDS Integers, Sequences, FiniteSets, TLC

\* ---------------------------------------------------------------- bounds
MaxAttemptsBound == 5
MaxIntervalMs == 2
MaxInitTimeoutMs == 4

\* ------------------------------------------------------- HTTP responses
\* A response is the outcome of one fetch: a transport failure, a non-OK
\* status, an OK status whose body is not JSON, or an OK status with a JSON
\* body.  The body is described by the path the helpers walk:
\*   top    the parsed document itself: "null" or "obj"
\*   data   its property data
\*   field  data's property checkScanInProgress / scanAll / getScannedAppsInfo
\*   leaf   that object's property isInProgress / scanID / isStillScanning
NoResponse == [http |-> "none", top |-> "none", data |-> "none", field |-> "none", leaf |-> "none"]

FailedResponses ==
  { [http |-> h, top |-> "none", data |-> "none", field |-> "none", leaf |-> "none"] :
      h \in {"transport_error", "not_ok", "unparsable"} }

OkResponses(leaves) ==
  { [http |-> "ok", top |-> "null", data |-> "none", field |-> "none", leaf |-> "none"] }
  \cup { [http |-> "ok", top |-> "obj", data |-> d, field |-> "none", leaf |-> "none"] :
           d \in {"missing", "null"} }
  \cup { [http |-> "ok", top |-> "obj", data |-> "obj", field |-> f, leaf |-> "none"] :
           f \in {"missing", "null"} }
  \cup { [http |-> "ok", top |-> "obj", data |-> "obj", field |-> "obj", leaf |-> l] :
           l \in leaves \cup {"missing", "null"} }

BooleanLeaves == {"true", "false"}
ScanIdLeaves == {"empty", "scan-1", "scan-2"}

GateResponses == FailedResponses \cup OkResponses(BooleanLeaves)
StartResponses == FailedResponses \cup OkResponses(ScanIdLeaves)
StatusResponses == FailedResponses \cup OkResponses(BooleanLeaves)

\* ------------------------------------------------- JavaScript evaluation
\* The value of a property that may be absent.
PropertyValue(p) == IF p = "missing" THEN "undefined" ELSE p

\* x.f : a TypeError when x is null or undefined.
Member(x, v) ==
  IF x = "TypeError" THEN "TypeError"
  ELSE IF x \in {"null", "undefined"} THEN "TypeError"
  ELSE PropertyValue(v)

\* x?.f : undefined when x is null or undefined.
OptionalMember(x, v) ==
  IF x = "TypeError" THEN "TypeError"
  ELSE IF x \in {"null", "undefined"} THEN "undefined"
  ELSE PropertyValue(v)

\* x ?? null
NullishToNull(x) == IF x \in {"null", "undefined"} THEN "null" ELSE x

\* Truthiness of a JavaScript value.
Truthy(x) == x \notin {"undefined", "null", "false", "empty"}

\* ------------------------------------------------------ GraphQL helpers
\* checkScanInProgress: the value the launcher's gate returns for a response.
\* Everything thrown inside the try block is caught and answered with true;
\* otherwise the value of data.data?.checkScanInProgress?.isInProgress is
\* returned as it is.
CheckScanInProgress(r) ==
  IF r.http # "ok" THEN "true"
  ELSE LET isInProgress ==
             OptionalMember(OptionalMember(Member(r.top, r.data), r.field), r.leaf)
       IN IF isInProgress = "TypeError" THEN "true" ELSE isInProgress

\* Variant: the scanID of the response is not tested before it is returned.
InitiateScanningUnchecked(r) ==
  IF r.http # "ok" THEN "throw"
  ELSE LET id == OptionalMember(OptionalMember(Member(r.top, r.data), r.field), r.leaf)
       IN IF id = "TypeError" THEN "throw" ELSE id

\* initiateScanning: the scan id returned, or "throw".  Nothing is caught
\* here: a fetch failure, a non-OK status, a body that is not JSON and a
\* falsy data.data?.scanAll?.scanID all raise.
InitiateScanning(r) ==
  IF r.http # "ok" THEN "throw"
  ELSE LET id == OptionalMember(OptionalMember(Member(r.top, r.data), r.field), r.leaf)
       IN IF id = "TypeError" \/ ~Truthy(id) THEN "throw" ELSE id

\* Variant: the non-OK throw and the member accesses sit outside the try.
CheckScanningStatusNoCatch(r) ==
  IF r.http \in {"transport_error", "unparsable"} THEN "null"
  ELSE IF r.http = "not_ok" THEN "throw"
  ELSE LET v == NullishToNull(OptionalMember(Member(Member(r.top, r.data), r.field), r.leaf))
       IN IF v = "TypeError" THEN "throw" ELSE v

\* checkScanningStatus: the isStillScanning member of the object returned.
\* data.data.getScannedAppsInfo?.isStillScanning ?? null is evaluated inside
\* the try block; whatever is thrown there is caught and answered with null.
CheckScanningStatus(r) ==
  IF r.http # "ok" THEN "null"
  ELSE LET v == NullishToNull(OptionalMember(Member(Member(r.top, r.data), r.field), r.leaf))
       IN IF v = "TypeError" THEN "null" ELSE v

\* ------------------------------------------------ pollUntilScanComplete
\* Variant: the quotient is rounded down.
MaxConsecutiveNullResponsesFloor(initMs, intMs) == initMs \div intMs

\* Math.ceil(initializationTimeoutMs / intervalMs), both positive integers.
MaxConsecutiveNullResponses(initMs, intMs) == (initMs + intMs - 1) \div intMs

\* Variant: the while condition admits one iteration too many.
LoopConditionInclusive(att, maxAtt) == att <= maxAtt

\* The while condition.
LoopCondition(att, maxAtt) == att < maxAtt

\* The counter after the branch taken for the status: incremented in the null
\* branch, reset in the true branch, left alone in the false branch.
NextConsecutiveNullResponses(status, cnt) ==
  IF status = "null" THEN cnt + 1
  ELSE IF status = "false" THEN cnt
  ELSE 0

\* Variant: the true branch does not set the flag.
NextScanStartedNever(status, started) == started

\* The flag after the branch taken for the status.
NextScanStarted(status, started) ==
  IF status \in {"null", "false"} THEN started ELSE TRUE

\* Variant: the threshold is tested before the scanStarted flag.
IterationReturnTimeoutFirst(status, started, cnt, maxc) ==
  IF status = "null"
    THEN IF cnt >= maxc THEN "initialization_timeout"
         ELSE IF started THEN "cancelled"
         ELSE "none"
  ELSE IF status = "false" THEN "completed"
  ELSE "none"

\* Variant: a false status counts only once the scan was seen running.
IterationReturnCompletedOnlyAfterRunning(status, started, cnt, maxc) ==
  IF status = "null"
    THEN IF started THEN "cancelled"
         ELSE IF cnt >= maxc THEN "initialization_timeout"
         ELSE "none"
  ELSE IF status = "false" /\ started THEN "completed"
  ELSE "none"

\* The status string returned from inside the loop body, "none" when the
\* body falls through to the wait.  cnt is the counter after the increment.
IterationReturn(status, started, cnt, maxc) ==
  IF status = "null"
    THEN IF started THEN "cancelled"
         ELSE IF cnt >= maxc THEN "initialization_timeout"
         ELSE "none"
  ELSE IF status = "false" THEN "completed"
  ELSE "none"

\* Variant: the return statements are missing and the body always waits.
AfterIterationNoReturn(ret) == "poll_wait"

\* Variant: the setTimeout promise is not awaited.
AfterIterationNoWait(ret) == IF ret = "none" THEN "poll_loop" ELSE "main_report"

\* Where control goes after the loop body: out of the function when a status
\* was returned, to the setTimeout wait otherwise.
AfterIteration(ret) == IF ret = "none" THEN "poll_wait" ELSE "main_report"

\* Variant: the test of the gate's answer is negated.
GateRefusesInverted(scanInProgress) == ~Truthy(scanInProgress)

\* The object pollUntilScanComplete returns for a status string.
PollResult(status) == [success |-> status = "completed", status |-> status]

\* main's test of the gate's answer: if (scanInProgress).
GateRefuses(scanInProgress) == Truthy(scanInProgress)

\* ---------------------------------------------------------------- state
VARIABLES
  pc,                       \* position of main / pollUntilScanComplete
  maxAttempts,              \* parameters of pollUntilScanComplete
  intervalMs,
  initializationTimeoutMs,
  attempts,                 \* locals of pollUntilScanComplete
  consecutiveNullResponses,
  scanStarted,
  scanInProgress,           \* main: the gate's answer, "unset" before it
  scanID,                   \* main: the id returned by initiateScanning
  returned,                 \* the objects pollUntilScanComplete returned
  gateResp,                 \* the response each helper last received
  startResp,
  probeResp,
  ops,                      \* history: remote operations issued, in order
  obs,                      \* history: isStillScanning of every probe result
  pauses,                   \* history: setTimeout waits completed
  waitedMs,                 \* history: total delay of the completed waits
  cancelPc,                 \* cancel-scan.ts: position of main
  isInProgress,             \* cancel-scan.ts main: the check's answer
  line,                     \* cancel-scan.ts promptForScanId: the line read
  scanId,                   \* cancel-scan.ts main: the trimmed line read
  cancelCheckResp,          \* cancel-scan.ts: the response each helper received
  cancelResp,
  cancelOps                 \* history: queries, prompts and mutations, in order

vars == <<pc, maxAttempts, intervalMs, initializationTimeoutMs, attempts,
          consecutiveNullResponses, scanStarted, scanInProgress, scanID,
          returned, gateResp, startResp, probeResp, ops, obs, pauses,
          waitedMs, cancelPc, isInProgress, line, scanId, cancelCheckResp, cancelResp,
          cancelOps>>

config == <<maxAttempts, intervalMs, initializationTimeoutMs>>
locals == <<attempts, consecutiveNullResponses, scanStarted>>
launcherVars == <<pc, config, locals, scanInProgress, scanID, returned, gateResp,
                  startResp, probeResp, ops, obs, pauses, waitedMs>>
cancelVars == <<cancelPc, isInProgress, line, scanId, cancelCheckResp, cancelResp,
                cancelOps>>

RemoteOp(name, id) == [op |-> name, id |-> id]

maxConsecutiveNullResponses == MaxConsecutiveNullResponses(initializationTimeoutMs, intervalMs)

Init ==
  /\ pc = "main_gate"
  /\ maxAttempts \in 1..MaxAttemptsBound
  /\ intervalMs \in 1..MaxIntervalMs
  /\ initializationTimeoutMs \in 1..MaxInitTimeoutMs
  /\ attempts = 0
  /\ consecutiveNullResponses = 0
  /\ scanStarted = FALSE
  /\ scanInProgress = "unset"
  /\ scanID = "unset"
  /\ returned = <<>>
  /\ gateResp = NoResponse
  /\ startResp = NoResponse
  /\ probeResp = NoResponse
  /\ ops = <<>>
  /\ obs = <<>>
  /\ pauses = 0
  /\ waitedMs = 0
  /\ cancelPc = "not_run"
  /\ isInProgress = "unset"
  /\ line = <<>>
  /\ scanId = <<>>
  /\ cancelCheckResp = NoResponse
  /\ cancelResp = NoResponse
  /\ cancelOps = <<>>

\* main, step 1: await checkScanInProgress() and test its answer.
MainCheckGate ==
  /\ pc = "main_gate"
  /\ \E r \in GateResponses :
       /\ gateResp' = r
       /\ scanInProgress' = CheckScanInProgress(r)
       /\ pc' = IF GateRefuses(CheckScanInProgress(r)) THEN "main_refused" ELSE "main_initiate"
  /\ ops' = Append(ops, RemoteOp("checkScanInProgress", "none"))
  /\ UNCHANGED <<config, locals, scanID, returned, startResp, probeResp, obs, pauses,
                 waitedMs>>
  /\ UNCHANGED cancelVars

\* main, step 2: await initiateScanning(); a throw lands in main's catch,
\* otherwise pollUntilScanComplete(scanID) is entered and its locals are set.
MainInitiate ==
  /\ pc = "main_initiate"
  /\ \E r \in StartResponses :
       /\ startResp' = r
       /\ IF InitiateScanning(r) = "throw"
            THEN /\ pc' = "main_error"
                 /\ UNCHANGED scanID
            ELSE /\ pc' = "poll_loop"
                 /\ scanID' = InitiateScanning(r)
  /\ ops' = Append(ops, RemoteOp("scanAll", "none"))
  /\ attempts' = 0
  /\ consecutiveNullResponses' = 0
  /\ scanStarted' = FALSE
  /\ UNCHANGED <<config, scanInProgress, returned, gateResp, probeResp, obs, pauses,
                 waitedMs>>
  /\ UNCHANGED cancelVars

\* Loop test passed: attempts++ and the status query for scanID is sent.
PollIssueProbe ==
  /\ pc = "poll_loop"
  /\ LoopCondition(attempts, maxAttempts)
  /\ attempts' = attempts + 1
  /\ ops' = Append(ops, RemoteOp("getScannedAppsInfo", scanID))
  /\ pc' = "poll_await"
  /\ UNCHANGED <<config, consecutiveNullResponses, scanStarted, scanInProgress, scanID,
                 returned, gateResp, startResp, probeResp, obs, pauses,
                 waitedMs>>
  /\ UNCHANGED cancelVars

\* Loop test failed: return max_attempts_reached.
PollExhausted ==
  /\ pc = "poll_loop"
  /\ ~LoopCondition(attempts, maxAttempts)
  /\ returned' = Append(returned, PollResult("max_attempts_reached"))
  /\ pc' = "main_report"
  /\ UNCHANGED <<config, locals, scanInProgress, scanID, gateResp, startResp, probeResp,
                 ops, obs, pauses,
                 waitedMs>>
  /\ UNCHANGED cancelVars

\* The status query is answered: checkScanningStatus produces its result and
\* the loop body runs up to its return or up to the setTimeout.  A throw out
\* of checkScanningStatus would leave pollUntilScanComplete for main's catch.
PollProbeReturns ==
  /\ pc = "poll_await"
  /\ \E r \in StatusResponses :
       LET status == CheckScanningStatus(r)
           cnt == NextConsecutiveNullResponses(status, consecutiveNullResponses)
           ret == IterationReturn(status, scanStarted, cnt, maxConsecutiveNullResponses)
       IN /\ probeResp' = r
          /\ IF status = "throw"
               THEN /\ pc' = "main_error"
                    /\ UNCHANGED <<consecutiveNullResponses, scanStarted, returned, obs>>
               ELSE /\ obs' = Append(obs, status)
                    /\ consecutiveNullResponses' = cnt
                    /\ scanStarted' = NextScanStarted(status, scanStarted)
                    /\ returned' = IF ret = "none" THEN returned ELSE Append(returned, PollResult(ret))
                    /\ pc' = AfterIteration(ret)
  /\ UNCHANGED <<config, attempts, scanInProgress, scanID, gateResp, startResp, ops, pauses,
                 waitedMs>>
  /\ UNCHANGED cancelVars

\* Variant: the timer callback never resolves the promise awaited.
PollWaitNeverResolves ==
  /\ pc = "poll_wait"
  /\ UNCHANGED vars

\* The setTimeout of intervalMs fires and the loop test is reached again.
PollWaitElapsed ==
  /\ pc = "poll_wait"
  /\ pauses' = pauses + 1
  /\ waitedMs' = waitedMs + intervalMs
  /\ pc' = "poll_loop"
  /\ UNCHANGED <<config, locals, scanInProgress, scanID, returned, gateResp, startResp,
                 probeResp, ops, obs>>
  /\ UNCHANGED cancelVars

\* main, after pollUntilScanComplete returned: the result is logged.
MainReport ==
  /\ pc = "main_report"
  /\ pc' = "main_done"
  /\ UNCHANGED <<config, locals, scanInProgress, scanID, returned, gateResp, startResp,
                 probeResp, ops, obs, pauses,
                 waitedMs>>
  /\ UNCHANGED cancelVars

Next ==
  \/ MainCheckGate
  \/ MainInitiate
  \/ PollIssueProbe
  \/ PollExhausted
  \/ PollProbeReturns
  \/ PollWaitElapsed
  \/ MainReport

Spec == Init /\ [][Next]_vars

\* The polling loop under its scheduling: every awaited promise settles (each
\* status query is answered, each timer fires) and the continuation of a
\* settled await is run.
FairSpec ==
  /\ Spec
  /\ WF_vars(PollIssueProbe)
  /\ WF_vars(PollExhausted)
  /\ WF_vars(PollProbeReturns)
  /\ WF_vars(PollWaitElapsed)

\* ------------------------------------------------------- cancel-scan.ts
\* Longest line typed at the prompt.
MaxLineLen == 3

\* What stdin delivers to promptForScanId: end of input, or one line.
Chars == {" ", "a"}
StdinLines == UNION { [1..n -> Chars] : n \in 0..MaxLineLen }
EndOfInput == <<"EOF">>
StdinInputs == StdinLines \cup {EndOfInput}

\* String.prototype.trim: leading and trailing white space removed.
RECURSIVE TrimStart(_)
TrimStart(str) ==
  IF str # <<>> /\ str[1] = " " THEN TrimStart(Tail(str)) ELSE str

RECURSIVE TrimEnd(_)
TrimEnd(str) ==
  IF str # <<>> /\ str[Len(str)] = " "
    THEN TrimEnd(SubSeq(str, 1, Len(str) - 1))
    ELSE str

Trim(str) == TrimEnd(TrimStart(str))

\* promptForScanId: the first line trimmed, or "throw" at end of input.
PromptForScanId(input) == IF input = EndOfInput THEN <<"throw">> ELSE Trim(input)

CancelCheckResponses == FailedResponses \cup OkResponses(BooleanLeaves)
CancelResponses == FailedResponses \cup OkResponses(BooleanLeaves)

\* Variant: failures are swallowed and answered with true, as the launcher's
\* gate does.
CancelCheckScanInProgressFailSafe(r) ==
  IF r.http # "ok" THEN "true"
  ELSE LET d == Member(r.top, r.data)
           f == Member(d, r.field)
       IN IF d = "TypeError" \/ ~Truthy(d) \/ ~Truthy(f) THEN "true"
          ELSE Member(f, r.leaf)

\* cancel-scan.ts checkScanInProgress: the isInProgress value returned, or
\* "throw".  The catch logs and rethrows, so a fetch failure, a body that is
\* not JSON, a non-OK status and a falsy data or data.checkScanInProgress all
\* raise.
CancelCheckScanInProgress(r) ==
  IF r.http # "ok" THEN "throw"
  ELSE LET d == Member(r.top, r.data)
           f == Member(d, r.field)
       IN IF d = "TypeError" \/ ~Truthy(d) \/ ~Truthy(f) THEN "throw"
          ELSE Member(f, r.leaf)

\* cancelScan: the isCanceled member of the result returned, or "throw".
CancelScan(r) ==
  IF r.http # "ok" THEN "throw"
  ELSE LET d == Member(r.top, r.data)
           f == Member(d, r.field)
       IN IF d = "TypeError" \/ ~Truthy(d) \/ ~Truthy(f) THEN "throw"
          ELSE Member(f, r.leaf)

CancelOp(name, id) == [op |-> name, id |-> id]

CancelInit ==
  /\ pc = "not_run"
  /\ maxAttempts = 1
  /\ intervalMs = 1
  /\ initializationTimeoutMs = 1
  /\ attempts = 0
  /\ consecutiveNullResponses = 0
  /\ scanStarted = FALSE
  /\ scanInProgress = "unset"
  /\ scanID = "unset"
  /\ returned = <<>>
  /\ gateResp = NoResponse
  /\ startResp = NoResponse
  /\ probeResp = NoResponse
  /\ ops = <<>>
  /\ obs = <<>>
  /\ pauses = 0
  /\ waitedMs = 0
  /\ cancelPc = "cancel_check"
  /\ isInProgress = "unset"
  /\ line = <<>>
  /\ scanId = <<>>
  /\ cancelCheckResp = NoResponse
  /\ cancelResp = NoResponse
  /\ cancelOps = <<>>

\* main: await checkScanInProgress(); a throw lands in main's catch and
\* Deno.exit(1), a falsy answer in Deno.exit(0).
CancelMainCheck ==
  /\ cancelPc = "cancel_check"
  /\ \E r \in CancelCheckResponses :
       LET answer == CancelCheckScanInProgress(r)
       IN /\ cancelCheckResp' = r
          /\ IF answer = "throw"
               THEN /\ cancelPc' = "exit_1"
                    /\ UNCHANGED isInProgress
               ELSE /\ isInProgress' = answer
                    /\ cancelPc' = IF ~Truthy(answer) THEN "exit_0" ELSE "cancel_prompt"
  /\ cancelOps' = Append(cancelOps, CancelOp("checkScanInProgress", <<>>))
  /\ UNCHANGED <<launcherVars, line, scanId, cancelResp>>

\* main: await promptForScanId(); end of input throws into main's catch.
CancelMainPrompt ==
  /\ cancelPc = "cancel_prompt"
  /\ \E input \in StdinInputs :
       /\ line' = input
       /\ IF PromptForScanId(input) = <<"throw">>
            THEN /\ cancelPc' = "exit_1"
                 /\ UNCHANGED scanId
            ELSE /\ cancelPc' = "cancel_mutate"
                 /\ scanId' = PromptForScanId(input)
  /\ cancelOps' = Append(cancelOps, CancelOp("prompt", <<>>))
  /\ UNCHANGED <<launcherVars, isInProgress, cancelCheckResp, cancelResp>>

\* main: await cancelScan(scanId) and display the result; a throw lands in
\* main's catch.
CancelMainMutate ==
  /\ cancelPc = "cancel_mutate"
  /\ \E r \in CancelResponses :
       /\ cancelResp' = r
       /\ cancelPc' = IF CancelScan(r) = "throw" THEN "exit_1" ELSE "cancel_done"
  /\ cancelOps' = Append(cancelOps, CancelOp("cancelScan", scanId))
  /\ UNCHANGED <<launcherVars, isInProgress, line, scanId, cancelCheckResp>>

CancelNext ==
  \/ CancelMainCheck
  \/ CancelMainPrompt
  \/ CancelMainMutate

CancelSpec == CancelInit /\ [][CancelNext]_vars

\* =============================================================== claims
\* pollUntilScanComplete has returned to main.
SessionReturned == pc \in {"main_report", "main_done"}

\* The status strings returned so far.
ReturnedStatuses == { returned[i].status : i \in 1..Len(returned) }

\* Some observation before the n-th is a Running one.
RunningBefore(n) == \E i \in 1..(n - 1) : obs[i] = "true"

\* ceil(initializationTimeoutMs / intervalMs) by its defining property.
CeilingOfRatio ==
  CHOOSE k \in 0..initializationTimeoutMs :
    /\ k * intervalMs >= initializationTimeoutMs
    /\ (k - 1) * intervalMs < initializationTimeoutMs

\* C1: once a probe has returned Running, the first later probe that returns
\* Indeterminate is the last probe of the session and the session returns
\* cancelled at that probe, for every counter value and every threshold.
C1_IndeterminateAfterRunningCancels ==
  \A n \in 1..Len(obs) :
    (obs[n] = "null" /\ RunningBefore(n)) =>
      /\ n = Len(obs)
      /\ attempts = n
      /\ SessionReturned
      /\ returned = <<[success |-> FALSE, status |-> "cancelled"]>>

\* C1 witness: Indeterminate, Running, Indeterminate under a threshold of at
\* least 3 has been answered with cancelled.
C1_Witness ==
  /\ obs = <<"null", "true", "null">>
  /\ CeilingOfRatio >= 3
  /\ "cancelled" \in ReturnedStatuses

\* C2: with no Running observation, initialization_timeout is returned at
\* the probe where the counter first reaches the ceiling of
\* initializationTimeoutMs / intervalMs: not while the counter is below it,
\* and the counter never passes it because the session ends there.
C2_TimeoutExactlyAtCeiling ==
  (\A i \in 1..Len(obs) : obs[i] # "true") =>
    /\ consecutiveNullResponses <= CeilingOfRatio
    /\ ("initialization_timeout" \in ReturnedStatuses
          <=> (consecutiveNullResponses = CeilingOfRatio /\ obs # <<>>
                 /\ obs[Len(obs)] = "null"))
    /\ "initialization_timeout" \in ReturnedStatuses =>
         /\ SessionReturned
         /\ returned = <<[success |-> FALSE, status |-> "initialization_timeout"]>>
         /\ attempts = CeilingOfRatio
         /\ Len(obs) = CeilingOfRatio

\* C2 witness: scenario A, three Indeterminate observations with
\* maxAttempts = 5, intervalMs = 1, initializationTimeoutMs = 3.
C2_Witness ==
  /\ maxAttempts = 5 /\ intervalMs = 1 /\ initializationTimeoutMs = 3
  /\ obs = <<"null", "null", "null">>
  /\ "initialization_timeout" \in ReturnedStatuses

\* C3: a probe that returns Finished is the last probe of the session and
\* the session returns completed with success = true at that probe, whatever
\* came before and also at the maxAttempts-th probe.
C3_FinishedCompletes ==
  \A n \in 1..Len(obs) :
    obs[n] = "false" =>
      /\ n = Len(obs)
      /\ attempts = n
      /\ SessionReturned
      /\ returned = <<[success |-> TRUE, status |-> "completed"]>>

\* C3 witness: Finished arrives at the last permitted probe, before any
\* Running observation and with a non-zero counter.
C3_Witness ==
  /\ maxAttempts = 3
  /\ obs = <<"null", "null", "false">>
  /\ "completed" \in ReturnedStatuses

\* C4: when the session has returned and none of completed, cancelled and
\* initialization_timeout was produced, what it returned is
\* max_attempts_reached, after exactly maxAttempts probes; and
\* max_attempts_reached is never returned with another number of attempts.
C4_BudgetExhausted ==
  /\ (SessionReturned
        /\ ReturnedStatuses \cap {"completed", "cancelled", "initialization_timeout"} = {})
       => /\ returned = <<[success |-> FALSE, status |-> "max_attempts_reached"]>>
          /\ attempts = maxAttempts
          /\ Len(obs) = maxAttempts
  /\ "max_attempts_reached" \in ReturnedStatuses
       => (attempts = maxAttempts /\ Len(obs) = maxAttempts)

\* C4 witness: the budget of 3 probes is used up by Indeterminate and
\* Running observations.
C4_Witness ==
  /\ maxAttempts = 3
  /\ obs = <<"null", "true", "true">>
  /\ "max_attempts_reached" \in ReturnedStatuses

\* C5: a session returns at most one outcome, has returned exactly one when
\* control is back in main, and once an outcome exists no remote operation
\* is issued and no further outcome is produced.
C5_OneOutcomeNoProbeAfter ==
  /\ [](Len(returned) <= 1)
  /\ [](SessionReturned => Len(returned) = 1)
  /\ [][returned # <<>> => (ops' = ops /\ obs' = obs /\ returned' = returned)]_vars

\* C5 witness: main has the single outcome of a session of three probes.
C5_Witness ==
  /\ pc = "main_done"
  /\ Len(returned) = 1
  /\ Len(obs) = 3

\* Length of the longest suffix of a sequence made of "null" only.
RECURSIVE NullSuffixLength(_)
NullSuffixLength(seq) ==
  IF seq = <<>> \/ seq[Len(seq)] # "null" THEN 0
  ELSE 1 + NullSuffixLength(SubSeq(seq, 1, Len(seq) - 1))

\* C6: after each observation has been processed, the last one included,
\* the consecutive-null counter equals the length of the longest
\* all-Indeterminate suffix of the observations, so it is 0 right after a
\* Running or a Finished observation.
C6_CounterIsNullSuffix ==
  consecutiveNullResponses = NullSuffixLength(obs)

\* A response from which the gate cannot tell whether a scan is active.
GateUndetermined(r) == r.http # "ok" \/ r.leaf \notin {"true", "false"}

\* The operations of one kind in the history.
OpsNamed(name) == { i \in 1..Len(ops) : ops[i].op = name }

\* C7: whenever the gate's response does not determine activity (transport
\* failure, non-OK status, unparsable body, data or checkScanInProgress or
\* isInProgress missing or null), checkScanInProgress answers true and main
\* issues no scanAll mutation.
C7_GateFailsSafe ==
  (gateResp # NoResponse /\ GateUndetermined(gateResp)) =>
    /\ scanInProgress = "true"
    /\ OpsNamed("scanAll") = {}

\* C8: the gate query is the first remote operation and the only one of its
\* kind; scanAll is issued at most once, second, and only when the gate's
\* answer was not true; status queries come after a scanAll that returned an
\* id and carry that id; a gate answer of true leaves the gate query as the
\* only operation.
C8_OperationOrder ==
  /\ ops # <<>> => OpsNamed("checkScanInProgress") = {1}
  /\ OpsNamed("scanAll") \subseteq {2}
  /\ OpsNamed("scanAll") # {} => scanInProgress \in {"false", "null", "undefined"}
  /\ \A i \in OpsNamed("getScannedAppsInfo") :
       /\ i >= 3
       /\ OpsNamed("scanAll") = {2}
       /\ startResp.http = "ok"
       /\ startResp.leaf \in {"scan-1", "scan-2"}
       /\ ops[i].id = startResp.leaf
  /\ scanInProgress = "true" => Len(ops) = 1

\* C8 witness: a run that queried the gate, started scan-2 and probed it
\* twice.
C8_Witness ==
  /\ Len(ops) = 4
  /\ scanInProgress = "false"
  /\ ops[3].id = "scan-2"
  /\ ops[4].id = "scan-2"

\* A scanAll response from which no scan id is obtained.
StartFailed(r) == r.http # "ok" \/ r.leaf \notin {"scan-1", "scan-2"}

\* C9: when initiateScanning fails (transport error, non-OK status, body
\* without a scanID) main ends in its catch: no status query is issued, no
\* observation is taken and pollUntilScanComplete returns nothing.
C9_StartFailureAborts ==
  (startResp # NoResponse /\ StartFailed(startResp)) =>
    /\ pc = "main_error"
    /\ OpsNamed("getScannedAppsInfo") = {}
    /\ obs = <<>>
    /\ returned = <<>>

\* C9 witness: an OK scanAll response whose scanAll object has no scanID
\* ended the run in main's catch.
C9_Witness ==
  /\ pc = "main_error"
  /\ startResp.http = "ok"
  /\ startResp.field = "obj"
  /\ startResp.leaf = "missing"

\* A status response that carries no definite status.
StatusUndetermined(r) == r.http # "ok" \/ r.leaf \notin {"true", "false"}

\* C10: checkScanningStatus never throws into the loop and sends one query
\* per call: main's catch is reached only from initiateScanning, the status
\* queries sent are the observations taken plus the one outstanding, and a
\* response without a definite status (transport error, non-OK status,
\* unparsable or malformed body, absent record, null status) is observed as
\* null.
C10_ProbeFailuresFoldToNull ==
  /\ pc = "main_error" => (probeResp = NoResponse /\ obs = <<>>)
  /\ Cardinality(OpsNamed("getScannedAppsInfo"))
       = Len(obs) + (IF pc = "poll_await" THEN 1 ELSE 0)
  /\ probeResp # NoResponse =>
       /\ obs # <<>>
       /\ StatusUndetermined(probeResp) => obs[Len(obs)] = "null"
       /\ ~StatusUndetermined(probeResp) => obs[Len(obs)] = probeResp.leaf

\* C10 witness: a non-OK status on the first probe and a body without a data
\* member on the second were both taken as null and the loop goes on to wait.
C10_Witness ==
  /\ pc = "poll_wait"
  /\ obs = <<"null", "null">>
  /\ probeResp.http = "ok"
  /\ probeResp.top = "obj"
  /\ probeResp.data = "missing"

\* The cancel-scan operations of one kind in the history.
CancelOpsNamed(name) == { i \in 1..Len(cancelOps) : cancelOps[i].op = name }

\* A response on which cancel-scan's in-progress check fails.
CancelCheckFailed(r) == r.http # "ok" \/ r.data # "obj" \/ r.field # "obj"

\* C11: in a cancel-scan run the cancelScan mutation is issued at most once
\* and only after the check answered true; after an answer of false the run
\* exits 0 with no prompt and no mutation; after a failed check (transport
\* error, non-OK status, invalid response format) it exits 1 with no prompt
\* and no mutation.
C11_CancelOnlyAfterPositiveCheck ==
  /\ Cardinality(CancelOpsNamed("cancelScan")) <= 1
  /\ CancelOpsNamed("cancelScan") # {} =>
       /\ isInProgress = "true"
       /\ cancelCheckResp.http = "ok"
       /\ cancelCheckResp.leaf = "true"
       /\ CancelOpsNamed("checkScanInProgress") = {1}
       /\ CancelOpsNamed("cancelScan") = {3}
  /\ (cancelCheckResp # NoResponse /\ ~CancelCheckFailed(cancelCheckResp)
        /\ cancelCheckResp.leaf = "false") =>
       /\ cancelPc = "exit_0"
       /\ CancelOpsNamed("prompt") = {}
       /\ CancelOpsNamed("cancelScan") = {}
  /\ (cancelCheckResp # NoResponse /\ CancelCheckFailed(cancelCheckResp)) =>
       /\ cancelPc = "exit_1"
       /\ CancelOpsNamed("prompt") = {}
       /\ CancelOpsNamed("cancelScan") = {}

\* C11 witness: the check answered true, " a" was typed and the mutation
\* for scan "a" has been issued.
C11_Witness ==
  /\ cancelPc = "cancel_done"
  /\ isInProgress = "true"
  /\ line = <<" ", "a">>
  /\ cancelOps[3] = [op |-> "cancelScan", id |-> <<"a">>]

\* The status queries sent so far.
ProbesIssued == Cardinality(OpsNamed("getScannedAppsInfo"))

\* C12: the attempts counter never decreases, always equals the number of
\* status queries sent so far and never exceeds maxAttempts.
C12_AttemptsCountProbes ==
  /\ [](attempts = ProbesIssued /\ attempts <= maxAttempts)
  /\ [][attempts' >= attempts]_vars

\* C12 witness: the last permitted probe of a budget of 4 is outstanding.
C12_Witness ==
  /\ pc = "poll_await"
  /\ maxAttempts = 4
  /\ attempts = 4
  /\ ProbesIssued = 4

\* A status response produced by a network failure or a missing record.
ProbeFailure(r) ==
  \/ r.http = "transport_error"
  \/ (r.http = "ok" /\ r.data = "obj" /\ r.field \in {"missing", "null"})

\* C13 as stated: from every non-terminal state, a probe answered by a
\* network failure or a missing record leaves the session running.
C13_SingleFailureNeverFatal ==
  [][(pc = "poll_await" /\ ProbeFailure(probeResp') /\ obs' # obs)
       => (pc' = "poll_wait" /\ returned' = returned)]_vars

\* C13 amended: a probe answered by a network failure or a missing record
\* leaves the session running exactly when no Running observation came
\* before and the counter stays below the ceiling of
\* initializationTimeoutMs / intervalMs; otherwise that single observation
\* ends the session.
C13_SingleFailureFatalOnlyAfterRunningOrAtCeiling ==
  [][(pc = "poll_await" /\ ProbeFailure(probeResp') /\ obs' # obs)
       => ((pc' = "poll_wait" /\ returned' = returned)
             <=> (~scanStarted /\ consecutiveNullResponses + 1 < CeilingOfRatio))]_vars

\* C13 witness: a second consecutive transport failure was taken and the
\* loop is waiting for its next iteration.
C13_Witness ==
  /\ pc = "poll_wait"
  /\ obs = <<"null", "null">>
  /\ probeResp.http = "transport_error"
  /\ returned = <<>>

\* C14: max_attempts_reached is returned with no wait after the last probe,
\* so the waits completed are one fewer than the probes made.
C14_NoPauseAfterLastProbe ==
  "max_attempts_reached" \in ReturnedStatuses =>
    (Len(obs) = maxAttempts /\ pauses = Len(obs) - 1)

\* C15: when initialization_timeout is returned the loop has waited at
\* least initializationTimeoutMs.
C15_TimeoutNotUnderEnforced ==
  "initialization_timeout" \in ReturnedStatuses =>
    (waitedMs = pauses * intervalMs /\ waitedMs >= initializationTimeoutMs)

\* Status queries sent and not yet answered.
Outstanding == ProbesIssued - Len(obs)

\* C16: at most one status query is outstanding; a wait is pending only
\* after the latest query was answered; a query is sent only from the loop
\* test, with none outstanding and no wait pending, and the k-th query is
\* preceded by exactly k-1 completed waits of intervalMs each.
C16_StrictlySequential ==
  /\ [](Outstanding \in {0, 1} /\ (Outstanding = 1 <=> pc = "poll_await"))
  /\ [](pc = "poll_wait" => (Outstanding = 0 /\ pauses = Len(obs) - 1))
  /\ [][ProbesIssued' > ProbesIssued =>
          /\ pc = "poll_loop"
          /\ Outstanding = 0
          /\ pauses = ProbesIssued
          /\ waitedMs = ProbesIssued * intervalMs]_vars

\* C16 witness: the third query is outstanding after two waits of 2 ms.
C16_Witness ==
  /\ pc = "poll_await"
  /\ ProbesIssued = 3
  /\ Len(obs) = 2
  /\ pauses = 2
  /\ waitedMs = 4

\* C17: with every status query answered, a session that entered the loop
\* returns one of the four outcomes, and it never sends more than
\* maxAttempts queries.
C17_SessionTerminates ==
  /\ [](ProbesIssued <= maxAttempts)
  /\ (pc = "poll_loop") ~>
       (SessionReturned /\ Len(returned) = 1
          /\ ReturnedStatuses \subseteq {"completed", "cancelled",
                                         "initialization_timeout", "max_attempts_reached"})

\* C17 witness: a session of 4 probes ended by exhausting its budget.
C17_Witness ==
  /\ pc = "main_done"
  /\ maxAttempts = 4
  /\ ProbesIssued = 4
  /\ "max_attempts_reached" \in ReturnedStatuses

\* C18: the outcome fixes the shape of the observations: completed only
\* with a final Finished; cancelled only with a final Indeterminate after
\* some Running; initialization_timeout only when all are Indeterminate;
\* max_attempts_reached only with no Finished and a final Running or a final
\* Indeterminate below the threshold with no Running at all.
C18_OutcomeShapesHistory ==
  /\ "completed" \in ReturnedStatuses =>
       (obs # <<>> /\ obs[Len(obs)] = "false")
  /\ "cancelled" \in ReturnedStatuses =>
       (Len(obs) >= 2 /\ obs[Len(obs)] = "null" /\ RunningBefore(Len(obs)))
  /\ "initialization_timeout" \in ReturnedStatuses =>
       (obs # <<>> /\ \A i \in 1..Len(obs) : obs[i] = "null")
  /\ "max_attempts_reached" \in ReturnedStatuses =>
       /\ obs # <<>>
       /\ \A i \in 1..Len(obs) : obs[i] # "false"
       /\ \/ obs[Len(obs)] = "true"
          \/ /\ obs[Len(obs)] = "null"
             /\ NullSuffixLength(obs) < CeilingOfRatio
             /\ \A i \in 1..Len(obs) : obs[i] # "true"

\* C18 witness: two Indeterminate observations below a threshold of 3 used
\* up a budget of 2.
C18_Witness ==
  /\ maxAttempts = 2
  /\ CeilingOfRatio >= 3
  /\ obs = <<"null", "null">>
  /\ "max_attempts_reached" \in ReturnedStatuses

\* No Running observation so far.
NeverRunning == \A i \in 1..Len(obs) : obs[i] # "true"

\* The session is inside the polling loop.
InLoop == pc \in {"poll_loop", "poll_await", "poll_wait"}

\* Where initialization_timeout can be produced: only at probe number
\* ceil(initializationTimeoutMs / intervalMs), never when that exceeds
\* maxAttempts (an all-Indeterminate session then exhausts its budget), and
\* never once a Running observation was seen.
TimeoutReachability ==
  /\ "initialization_timeout" \in ReturnedStatuses =>
       (attempts = CeilingOfRatio /\ NeverRunning /\ ~scanStarted)
  /\ CeilingOfRatio > maxAttempts =>
       /\ "initialization_timeout" \notin ReturnedStatuses
       /\ (SessionReturned /\ \A i \in 1..Len(obs) : obs[i] = "null") =>
            returned = <<[success |-> FALSE, status |-> "max_attempts_reached"]>>
  /\ ~NeverRunning => (scanStarted /\ "initialization_timeout" \notin ReturnedStatuses)

\* C19 as stated: while no Running observation has occurred and the session
\* has not ended, the counter equals attempts; with the consequences above.
C19_CounterEqualsAttempts ==
  /\ (NeverRunning /\ InLoop) => consecutiveNullResponses = attempts
  /\ TimeoutReachability

\* C19 amended: while no Running observation has occurred and the session
\* has not ended, the counter equals attempts whenever no status query is
\* outstanding, and attempts is one ahead while one is; with the
\* consequences above.
C19_CounterEqualsObservations ==
  /\ (NeverRunning /\ InLoop) =>
       /\ consecutiveNullResponses = Len(obs)
       /\ pc # "poll_await" => consecutiveNullResponses = attempts
       /\ pc = "poll_await" => consecutiveNullResponses = attempts - 1
  /\ TimeoutReachability

\* C19 witness: three Indeterminate observations under a threshold of 4 and
\* a budget of 3, so the session ended without initialization_timeout.
C19_Witness ==
  /\ maxAttempts = 3
  /\ CeilingOfRatio = 4
  /\ obs = <<"null", "null", "null">>
  /\ consecutiveNullResponses = 3
  /\ SessionReturned

====
